---- MODULE Spec2Model ----
(***************************************************************************)
(* check-updates: a monitoring probe that asks the package service for     *)
(* pending updates, guarded by a lock file and a cron-like schedule.       *)
(*                                                                         *)
(* Three specifications share the module's variables:                      *)
(*   CronEval  the schedule evaluator (src/src/cron.rs) on bounded inputs  *)
(*   LockSpec  several processes running main's lock/schedule prologue     *)
(*   Spec      one process running main and run_update_check in detail     *)
(***************************************************************************)
EXTENDS Integers, Sequences, FiniteSets

\* ------------------------------------------------------------------ bounds
MaxStep == 2
NumProcs == 2
MaxPackages == 2
MaxDetails == 2
MaxThreshold == 3

\* ------------------------------------------------------- Option and Result
None == << >>
Some(x) == << x >>
UnwrapOr(o, d) == IF o = None THEN d ELSE o[1]
Ok(v) == [ok |-> TRUE, val |-> v]
Err(m) == [ok |-> FALSE, val |-> m]

\* ------------------------------------------------- chrono::DateTime<Local>
\* A DateTime is a record of its calendar fields; the local zone is taken as
\* a fixed offset of zero.  year .. second as chrono's accessors, nano the
\* sub-second part.
EpochYear == 1970

IsLeap(y) == (y % 4 = 0 /\ y % 100 # 0) \/ y % 400 = 0

DaysInMonth(y, m) ==
    IF m = 2 THEN (IF IsLeap(y) THEN 29 ELSE 28)
    ELSE IF m \in {4, 6, 9, 11} THEN 30 ELSE 31

DaysInYear(y) == IF IsLeap(y) THEN 366 ELSE 365

RECURSIVE DaysBeforeYear(_)
DaysBeforeYear(y) ==
    IF y <= EpochYear THEN 0 ELSE DaysBeforeYear(y - 1) + DaysInYear(y - 1)

RECURSIVE DaysBeforeMonth(_, _)
DaysBeforeMonth(y, m) ==
    IF m <= 1 THEN 0 ELSE DaysBeforeMonth(y, m - 1) + DaysInMonth(y, m - 1)

DateTime(y, mo, d, h, mi, s, n) ==
    [year |-> y, month |-> mo, day |-> d, hour |-> h, minute |-> mi,
     second |-> s, nano |-> n]

\* DateTime::timestamp(): whole seconds since the epoch (nano dropped)
timestamp(t) ==
    (((DaysBeforeYear(t.year) + DaysBeforeMonth(t.year, t.month) + (t.day - 1)) * 24
        + t.hour) * 60 + t.minute) * 60 + t.second

RECURSIVE YearOfDay(_, _)
YearOfDay(y, days) ==
    IF days < DaysInYear(y) THEN <<y, days>>
    ELSE YearOfDay(y + 1, days - DaysInYear(y))

RECURSIVE MonthOfDay(_, _, _)
MonthOfDay(y, m, days) ==
    IF days < DaysInMonth(y, m) THEN <<m, days>>
    ELSE MonthOfDay(y, m + 1, days - DaysInMonth(y, m))

\* DateTime::from_timestamp(secs, 0): None before the epoch year modelled here
from_timestamp(secs) ==
    IF secs < 0 THEN None
    ELSE LET days == secs \div 86400
             rem  == secs % 86400
             yd   == YearOfDay(EpochYear, days)
             md   == MonthOfDay(yd[1], 1, yd[2])
         IN  Some(DateTime(yd[1], md[1], md[2] + 1, rem \div 3600,
                           (rem % 3600) \div 60, rem % 60, 0))

\* PartialOrd on DateTime: by instant
TimeLT(a, b) ==
    \/ timestamp(a) < timestamp(b)
    \/ timestamp(a) = timestamp(b) /\ a.nano < b.nano

TimeGT(a, b) == TimeLT(b, a)

with_second(t, s) == IF s \in 0..59 THEN Some([t EXCEPT !.second = s]) ELSE None
with_minute(t, m) == IF m \in 0..59 THEN Some([t EXCEPT !.minute = m]) ELSE None
with_hour(t, h) == IF h \in 0..23 THEN Some([t EXCEPT !.hour = h]) ELSE None
with_day(t, d) ==
    IF d \in 1..DaysInMonth(t.year, t.month) THEN Some([t EXCEPT !.day = d]) ELSE None
with_month(t, m) ==
    IF m \in 1..12 /\ t.day <= DaysInMonth(t.year, m)
    THEN Some([t EXCEPT !.month = m]) ELSE None

\* ------------------------------------------------------------ cron.rs
\* CronField
Any == [kind |-> "Any", n |-> 0]
Value(v) == [kind |-> "Value", n |-> v]
Step(s) == [kind |-> "Step", n |-> s]

\* A schedule text is the sequence of its whitespace-separated words.  A word
\* is "*", "*/<n>", "<n>", or something that is none of these.
Star == [kind |-> "star", n |-> 0]
StepWord(k) == [kind |-> "step", n |-> k]
NumWord(k) == [kind |-> "num", n |-> k]
Junk == [kind |-> "junk", n |-> 0]
Alias(name) == [kind |-> name, n |-> 0]

AliasNames == {"@hourly", "@daily", "@midnight", "@monthly", "@annually", "@yearly"}

fixAny(field, value) == value

fix(field, value) ==
    CASE field.kind = "Any" -> value
      [] field.kind = "Value" -> field.n
      [] field.kind = "Step" -> value - (value % field.n)

parse_field(word, min, max) ==
    IF word.kind = "star" THEN Ok(Any)
    ELSE IF word.kind = "step"
        THEN IF word.n <= 0 THEN Err("Step value must be positive")
             ELSE Ok(Step(word.n))
    ELSE IF word.kind = "num"
        THEN IF word.n < min \/ word.n > max THEN Err("Value out of range")
             ELSE Ok(Value(word.n))
    ELSE Err("Invalid numeric value")

ExpandAlias(spec) ==
    IF Len(spec) = 1 /\ spec[1].kind = "@hourly"
        THEN <<NumWord(0), Star, Star, Star>>
    ELSE IF Len(spec) = 1 /\ spec[1].kind \in {"@daily", "@midnight"}
        THEN <<NumWord(0), NumWord(0), Star, Star>>
    ELSE IF Len(spec) = 1 /\ spec[1].kind = "@monthly"
        THEN <<NumWord(0), NumWord(0), NumWord(1), Star>>
    ELSE IF Len(spec) = 1 /\ spec[1].kind \in {"@annually", "@yearly"}
        THEN <<NumWord(0), NumWord(0), NumWord(1), NumWord(1)>>
    ELSE spec

parse_cron_spec(spec) ==
    LET parts == ExpandAlias(spec) IN
    IF Len(parts) # 4 THEN Err("Invalid cron spec: expected 4 fields")
    ELSE LET mi == parse_field(parts[1], 0, 59)
             h  == parse_field(parts[2], 0, 23)
             d  == parse_field(parts[3], 1, 31)
             mo == parse_field(parts[4], 1, 12)
         IN  IF ~mi.ok THEN mi
             ELSE IF ~h.ok THEN h
             ELSE IF ~d.ok THEN d
             ELSE IF ~mo.ok THEN mo
             ELSE Ok([minute |-> mi.val, hour |-> h.val,
                      day |-> d.val, month |-> mo.val])

calculate_last_period(cron, now) ==
    LET minute == fix(cron.minute, now.minute)
        hour   == fix(cron.hour, now.hour)
        day    == fix(cron.day, now.day)
        month  == fix(cron.month, now.month)
        t0 == with_second(now, 0)[1]
        t1 == UnwrapOr(with_minute(t0, minute), now)
        t2 == UnwrapOr(with_hour(t1, hour), now)
        t3 == UnwrapOr(with_day(t2, day), now)
    IN  UnwrapOr(with_month(t3, month), now)

LaterThanMut(a, b) == ~TimeLT(a, b)
LaterThan(a, b) == TimeGT(a, b)

should_run(spec, last_run, now) ==
    LET cron == parse_cron_spec(spec) IN
    IF ~cron.ok THEN cron
    ELSE Ok(LaterThan(calculate_last_period(cron.val, now), last_run))

\* ------------------------------------------------------------- variables
VARIABLES
    \* schedule evaluator on its own (CronEval)
    evPc, evSpec, evNow, evCron, evPeriod, evLast, evDue

evalVars == <<evPc, evSpec, evNow, evCron, evPeriod, evLast, evDue>>

VARIABLES
    \* per process: main's position, its Config, what try_lock returned, the
    \* last_run and now locals, the verdict printed and the exit code
    pc, config, acquired, last_run, now, output, exit_code,
    \* per process, history: it rewrote the timestamp / contacted the service
    wrote, contacted,
    \* the environment: holders of the advisory lock on the lock path, the lock
    \* file's body, the wall clock
    lockHolders, fileBody, clock

VARIABLES
    \* the cancellation flag (true until a terminating signal), the signal the
    \* signal task handled last; history: the flag's value as read at the two
    \* checkpoints and the answer prompt_confirmation returned
    running, lastSignal, checks,
    \* run_update_check: its position, the phase in progress and the position
    \* inside it, the phase's return value, run_update_check's return value
    rpc, phase, ppc, phaseResult, run_result,
    \* run_update_check's locals
    updates, detailed_updates,
    \* the phase's session: categories with a listener, the streams feeding
    \* the listeners, the state the listeners share with the poll loop
    subscribed, pkgStream, detStream, finStream, errStream,
    packages, details, finished, error,
    \* the package service: what it has emitted in this session, and (history)
    \* the sessions created and the requests issued so far
    svcFinished, svcError, svcCount, sessions, requests

procVars == <<pc, config, acquired, last_run, now, output, exit_code, wrote, contacted>>
envVars == <<lockHolders, fileBody, clock>>
sigVars == <<running, lastSignal>>
orchVars == <<checks, rpc, run_result, updates, detailed_updates>>
sessionVars == <<phase, ppc, phaseResult, subscribed, pkgStream, detStream, finStream,
                 errStream, packages, details, finished, error,
                 svcFinished, svcError, svcCount, sessions, requests>>
runVars == <<sigVars, orchVars, sessionVars>>

vars == <<evalVars, procVars, envVars, runVars>>

\* ------------------------------------------------------------ nagios.rs
exit_code_zero(status) == 0

exit_code_of(status) ==
    CASE status = "Ok" -> 0
      [] status = "Warning" -> 1
      [] status = "Critical" -> 2
      [] status = "Unknown" -> 3

NagiosOutput(status, message, perfdata) ==
    [status |-> status, message |-> message, perfdata |-> perfdata]

\* -------------------------------------------------------------- lock.rs
\* The lock file's body is a sequence of characters.
DigitChars == <<"0", "1", "2", "3", "4", "5", "6", "7", "8", "9">>
Whitespace == {" ", "\n"}
IsDigit(c) == \E i \in 1..10 : DigitChars[i] = c
DigitValue(c) == (CHOOSE i \in 1..10 : DigitChars[i] = c) - 1

RECURSIVE FormatNat(_)
FormatNat(n) ==
    IF n < 10 THEN <<DigitChars[n + 1]>>
    ELSE Append(FormatNat(n \div 10), DigitChars[(n % 10) + 1])

\* write!(file, "{}", i64)
FormatI64(n) == IF n < 0 THEN <<"-">> \o FormatNat(-n) ELSE FormatNat(n)

RECURSIVE TrimStart(_)
TrimStart(s) ==
    IF s # << >> /\ Head(s) \in Whitespace THEN TrimStart(Tail(s)) ELSE s

RECURSIVE TrimEnd(_)
TrimEnd(s) ==
    IF s # << >> /\ s[Len(s)] \in Whitespace
    THEN TrimEnd(SubSeq(s, 1, Len(s) - 1)) ELSE s

Trim(s) == TrimEnd(TrimStart(s))

RECURSIVE ParseNat(_, _)
ParseNat(s, acc) ==
    IF s = << >> THEN acc ELSE ParseNat(Tail(s), acc * 10 + DigitValue(Head(s)))

\* str::parse::<i64>(): an optional sign, then one or more digits
ParseI64(s) ==
    LET signed == s # << >> /\ Head(s) \in {"-", "+"}
        digits == IF signed THEN Tail(s) ELSE s
    IN  IF digits = << >> \/ \E i \in 1..Len(digits) : ~IsDigit(digits[i])
        THEN None
        ELSE IF signed /\ Head(s) = "-" THEN Some(0 - ParseNat(digits, 0))
        ELSE Some(ParseNat(digits, 0))

\* FileLock::read_timestamp on the file's contents
read_timestamp(contents) ==
    IF contents = << >> THEN Ok(None)
    ELSE LET parsed == ParseI64(Trim(contents)) IN
         IF parsed = None THEN Err("Failed to parse timestamp")
         ELSE IF from_timestamp(parsed[1]) = None THEN Err("Invalid timestamp")
         ELSE Ok(from_timestamp(parsed[1]))

\* FileLock::write_timestamp: the body the file is left with
write_timestamp(time) == FormatI64(timestamp(time))

\* File::try_lock_exclusive (flock LOCK_EX | LOCK_NB) on p's open file: the
\* lock is granted unless another open file holds it; fault is an OS failure
try_lock_exclusive(p, fault) ==
    IF fault THEN "Other"
    ELSE IF lockHolders \ {p} = {} THEN "Locked" ELSE "WouldBlock"

try_lock_always(os) == IF os = "Other" THEN Err("Failed to acquire lock") ELSE Ok(TRUE)

\* FileLock::try_lock
try_lock(os) ==
    CASE os = "Locked" -> Ok(TRUE)
      [] os = "WouldBlock" -> Ok(FALSE)
      [] os = "Other" -> Err("Failed to acquire lock")

\* -------------------------------------------------------------- main.rs
ExitNotTerminal(p, code, out) ==
    /\ pc' = pc
    /\ exit_code' = [exit_code EXCEPT ![p] = Some(code)]
    /\ output' = [output EXCEPT ![p] = out]
    /\ lockHolders' = lockHolders

\* The process ends: exit code, the verdict printed (if any); its open file
\* is closed, which releases the advisory lock (Drop for FileLock, or the OS).
Exit(p, code, out) ==
    /\ pc' = [pc EXCEPT ![p] = "exited"]
    /\ exit_code' = [exit_code EXCEPT ![p] = Some(code)]
    /\ output' = [output EXCEPT ![p] = out]
    /\ lockHolders' = lockHolders \ {p}

\* Config::from_args (config.rs), then main up to FileLock::new
FromArgs(p) ==
    /\ pc[p] = "from_args"
    /\ IF config[p].cron_spec # None /\ ~config[p].lock_file
       THEN Exit(p, 1, None)
       ELSE /\ pc' = [pc EXCEPT ![p] =
                        IF config[p].lock_file THEN "lock_new" ELSE "run_update_check"]
            /\ UNCHANGED <<exit_code, output, lockHolders>>
    /\ UNCHANGED <<config, acquired, last_run, now, wrote, contacted, fileBody, clock>>

\* FileLock::new: open the lock path (created if absent, not truncated)
LockNew(p) ==
    /\ pc[p] = "lock_new"
    /\ \E opened \in BOOLEAN :
        IF opened
        THEN /\ pc' = [pc EXCEPT ![p] = "try_lock"]
             /\ UNCHANGED <<exit_code, output, lockHolders>>
        ELSE Exit(p, 1, None)
    /\ UNCHANGED <<config, acquired, last_run, now, wrote, contacted, fileBody, clock>>

ContentionExitSilent(p) == Exit(p, 0, None)

\* main lines 48-58: the lock is held elsewhere
ContentionExit(p) ==
    IF config[p].cron_spec # None
    THEN Exit(p, 0, None)
    ELSE Exit(p, 1, Some(NagiosOutput("Warning", <<"Failed to acquire lock file">>, None)))

\* main lines 47-59: try_lock and the branch on its result
TryLock(p) ==
    /\ pc[p] = "try_lock"
    /\ \E fault \in BOOLEAN :
        LET os == try_lock_exclusive(p, fault)
            r  == try_lock(os)
        IN  IF ~r.ok
            THEN /\ Exit(p, 1, None)
                 /\ UNCHANGED acquired
            ELSE /\ acquired' = [acquired EXCEPT ![p] = Some(r.val)]
                 /\ IF ~r.val
                    THEN ContentionExit(p)
                    ELSE /\ pc' = [pc EXCEPT ![p] =
                                    IF config[p].cron_spec # None
                                    THEN "read_timestamp" ELSE "run_update_check"]
                         /\ lockHolders' =
                                IF os = "Locked" THEN lockHolders \cup {p} ELSE lockHolders
                         /\ UNCHANGED <<exit_code, output>>
    /\ UNCHANGED <<config, last_run, now, wrote, contacted, fileBody, clock>>

\* main lines 62-63: read the persisted timestamp, then read the clock
ReadTimestamp(p) ==
    /\ pc[p] = "read_timestamp"
    /\ LET r == read_timestamp(fileBody) IN
        IF ~r.ok
        THEN /\ Exit(p, 1, None)
             /\ UNCHANGED <<last_run, now>>
        ELSE /\ last_run' = [last_run EXCEPT ![p] = r.val]
             /\ now' = [now EXCEPT ![p] = Some(clock)]
             /\ pc' = [pc EXCEPT ![p] =
                        IF r.val # None THEN "should_run" ELSE "write_timestamp"]
             /\ UNCHANGED <<exit_code, output, lockHolders>>
    /\ UNCHANGED <<config, acquired, wrote, contacted, fileBody, clock>>

\* main lines 65-69: the schedule decides
ShouldRun(p) ==
    /\ pc[p] = "should_run"
    /\ LET r == should_run(config[p].cron_spec[1], last_run[p][1], now[p][1]) IN
        IF ~r.ok THEN Exit(p, 1, None)
        ELSE IF ~r.val THEN Exit(p, 0, None)
        ELSE /\ pc' = [pc EXCEPT ![p] = "write_timestamp"]
             /\ UNCHANGED <<exit_code, output, lockHolders>>
    /\ UNCHANGED <<config, acquired, last_run, now, wrote, contacted, fileBody, clock>>

\* main line 71: persist now as the last run
WriteTimestamp(p) ==
    /\ pc[p] = "write_timestamp"
    /\ fileBody' = write_timestamp(now[p][1])
    /\ wrote' = [wrote EXCEPT ![p] = TRUE]
    /\ pc' = [pc EXCEPT ![p] = "run_update_check"]
    /\ UNCHANGED <<config, acquired, last_run, now, output, exit_code, contacted,
                   lockHolders, clock>>

\* main lines 79-93: print the verdict and exit with its code
Report(p, result) ==
    IF result.ok
    THEN Exit(p, exit_code_of(result.val.status), Some(result.val))
    ELSE Exit(p, 2, Some(NagiosOutput("Critical", <<"An error occurred", result.val>>, None)))

Prologue(p) ==
    \/ FromArgs(p)
    \/ LockNew(p)
    \/ TryLock(p)
    \/ ReadTimestamp(p)
    \/ ShouldRun(p)
    \/ WriteTimestamp(p)

\* The process whose exchange with the package service is followed in detail
Main == 1

\* main lines 31-42: the signal task
Signals == {"SIGTERM", "SIGINT", "SIGQUIT", "SIGHUP"}

SetsFlagNoQuit(sig) == sig \in {"SIGTERM", "SIGINT"}

\* the match arm that stores false into the flag
SetsFlag(sig) == sig \in {"SIGTERM", "SIGINT", "SIGQUIT"}

SignalTask(sig) ==
    /\ pc[Main] \notin {"from_args", "exited"}
    /\ lastSignal' = Some(sig)
    /\ running' = IF SetsFlag(sig) THEN FALSE ELSE running
    /\ UNCHANGED <<procVars, envVars, orchVars, sessionVars>>

\* ---------------------------------------------------------- packagekit.rs
RefreshCache == "refresh_cache"
GetUpdates == "get_updates"
GetUpdateDetails == "get_update_details"
ApplyUpdates == "apply_updates"

ListenersFinishedOnly(ph) == <<"finished">>

\* the notification categories a phase subscribes to, in the order it does
Listeners(ph) ==
    CASE ph = RefreshCache -> <<"finished">>
      [] ph = GetUpdates -> <<"package", "finished">>
      [] ph = GetUpdateDetails -> <<"update_detail", "finished">>
      [] ph = ApplyUpdates -> <<"finished", "error_code">>

RequestError(ph) ==
    CASE ph = RefreshCache -> "Failed to refresh cache"
      [] ph = GetUpdates -> "Failed to get updates"
      [] ph = GetUpdateDetails -> "Failed to get update details"
      [] ph = ApplyUpdates -> "Failed to update packages"

\* a package identifier is the sequence of its ';'-separated fields
PkgIds == { <<"a", "1.0">>, <<"c">> }
ErrorDetails == {"transaction failed"}

UpdateDetail(id, cve_urls, text_has_cve, changelog_has_cve) ==
    [package_id |-> id, cve_urls |-> cve_urls,
     update_text_has_cve |-> text_has_cve, changelog_has_cve |-> changelog_has_cve]

DetailPayloads(id) ==
    { UpdateDetail(id, << >>, FALSE, FALSE),
      UpdateDetail(id, <<"https://cve">>, FALSE, FALSE) }

\* lines 206-208
is_security(args) ==
    args.cve_urls # << >> \/ args.update_text_has_cve \/ args.changelog_has_cve

parse_package_id_versioned(package_id, security) ==
    IF Len(package_id) < 2 THEN None
    ELSE Some([package_id |-> package_id,
               name |-> package_id[1],
               version |-> package_id[2],
               is_security |-> security])

parse_package_id(package_id, security) ==
    IF Len(package_id) = 0 THEN None
    ELSE Some([package_id |-> package_id,
               name |-> package_id[1],
               version |-> IF Len(package_id) >= 2 THEN package_id[2] ELSE "unknown",
               is_security |-> security])

\* HashMap::insert
Insert(map, k, v) == [x \in DOMAIN map \cup {k} |-> IF x = k THEN v ELSE map[x]]

\* get_update_details lines 235-246
RECURSIVE BuildResults(_, _)
BuildResults(package_ids, details_map) ==
    IF package_ids = << >> THEN << >>
    ELSE LET id == Head(package_ids)
             sec == IF id \in DOMAIN details_map THEN details_map[id] ELSE FALSE
             info == parse_package_id(id, sec)
         IN  info \o BuildResults(Tail(package_ids), details_map)

\* the session's state as a phase function creates it (ph, at position at),
\* and as it is once the function's locals are dropped ("none")
ResetSession(ph, at) ==
    /\ phase' = ph
    /\ ppc' = at
    /\ phaseResult' = None
    /\ subscribed' = {}
    /\ pkgStream' = << >>
    /\ detStream' = << >>
    /\ finStream' = 0
    /\ errStream' = << >>
    /\ packages' = << >>
    /\ details' = << >>
    /\ finished' = FALSE
    /\ error' = None
    /\ svcFinished' = FALSE
    /\ svcError' = None
    /\ svcCount' = 0
    /\ UNCHANGED <<sessions, requests>>

\* a phase function is called
StartPhase(ph) ==
    /\ rpc' = ph
    /\ ResetSession(ph, "create")

\* the caller has taken the phase function's return value
EndPhase == ResetSession("none", "none")

sessionState == <<subscribed, pkgStream, detStream, finStream, errStream,
                  packages, details, finished, error, svcFinished, svcError, svcCount>>

\* the phase function returns r
PhaseReturn(r) ==
    /\ phaseResult' = Some(r)
    /\ ppc' = "returned"

\* Vec filtering: the elements of s that satisfy Keep, in order
RECURSIVE SelectSecurity(_)
SelectSecurity(s) ==
    IF s = << >> THEN << >>
    ELSE (IF Head(s).is_security THEN <<Head(s)>> ELSE << >>) \o SelectSecurity(Tail(s))

\* main lines 171-175
updates_to_apply(cfg, detailed) ==
    IF cfg.apply_updates THEN detailed ELSE SelectSecurity(detailed)

\* the argument of get_update_details / apply_updates is empty: return at once
EmptyArgument ==
    \/ phase = GetUpdateDetails /\ updates = << >>
    \/ phase = ApplyUpdates /\ updates_to_apply(config[Main], detailed_updates) = << >>

\* PackageKitProxy::new, create_transaction, TransactionProxy::builder
CreateTransaction ==
    /\ ppc = "create"
    /\ IF EmptyArgument
       THEN /\ PhaseReturn(Ok(<< >>))
            /\ UNCHANGED sessions
       ELSE \E created \in BOOLEAN :
            IF created
            THEN /\ sessions' = Append(sessions, phase)
                 /\ ppc' = "subscribe"
                 /\ UNCHANGED phaseResult
            ELSE /\ PhaseReturn(Err(<<"Failed to create transaction">>))
                 /\ UNCHANGED sessions
    /\ UNCHANGED <<procVars, envVars, sigVars, orchVars, phase, sessionState, requests>>

\* receive_<category>() and the spawn of its listener, one category per step
Subscribe ==
    /\ ppc = "subscribe"
    /\ LET order == Listeners(phase)
           i == CHOOSE j \in 1..Len(order) :
                    /\ order[j] \notin subscribed
                    /\ \A k \in 1..(j - 1) : order[k] \in subscribed
       IN  /\ subscribed' = subscribed \cup {order[i]}
           /\ ppc' = IF i = Len(order) THEN "request" ELSE "subscribe"
    /\ UNCHANGED <<procVars, envVars, sigVars, orchVars, phase, phaseResult,
                   pkgStream, detStream, finStream, errStream, packages, details,
                   finished, error, svcFinished, svcError, svcCount, sessions, requests>>

\* the phase's request call
IssueRequest ==
    /\ ppc = "request"
    /\ \E accepted \in BOOLEAN :
        IF accepted
        THEN /\ requests' = Append(requests, phase)
             /\ ppc' = "poll"
             /\ UNCHANGED phaseResult
        ELSE /\ PhaseReturn(Err(<<RequestError(phase)>>))
             /\ UNCHANGED requests
    /\ UNCHANGED <<procVars, envVars, sigVars, orchVars, phase, sessionState, sessions>>

\* what a phase returns once the finished flag is seen
PhaseValue ==
    CASE phase = RefreshCache -> << >>
      [] phase = GetUpdates -> packages
      [] phase = GetUpdateDetails -> BuildResults(updates, details)
      [] phase = ApplyUpdates -> << >>

\* the poll loop reads the finished flag and finds it set
PollFinished ==
    /\ ppc = "poll"
    /\ finished
    /\ IF phase = ApplyUpdates
       THEN /\ ppc' = "check_error"
            /\ UNCHANGED phaseResult
       ELSE PhaseReturn(Ok(PhaseValue))
    /\ UNCHANGED <<procVars, envVars, sigVars, orchVars, phase, sessionState,
                   sessions, requests>>

\* apply_updates lines 302-306
ErrorSlotResult(slot) ==
    IF slot # None THEN Err(<<"Package update failed", slot[1]>>) ELSE Ok(<< >>)

CheckError ==
    /\ ppc = "check_error"
    /\ PhaseReturn(ErrorSlotResult(error))
    /\ UNCHANGED <<procVars, envVars, sigVars, orchVars, phase, sessionState,
                   sessions, requests>>

\* the session is live: the request was issued and the phase has not returned
Live == ppc \in {"poll", "check_error"}

FinishedListenerDrops ==
    /\ Live
    /\ finStream > 0
    /\ finStream' = finStream - 1
    /\ UNCHANGED <<procVars, envVars, sigVars, orchVars, phase, ppc, phaseResult,
                   subscribed, pkgStream, detStream, errStream, packages, details,
                   finished, error, svcFinished, svcError, svcCount, sessions, requests>>

\* ---- the listener tasks
FinishedListener ==
    /\ Live
    /\ finStream > 0
    /\ finStream' = finStream - 1
    /\ finished' = TRUE
    /\ UNCHANGED <<procVars, envVars, sigVars, orchVars, phase, ppc, phaseResult,
                   subscribed, pkgStream, detStream, errStream, packages, details,
                   error, svcFinished, svcError, svcCount, sessions, requests>>

ErrorListener ==
    /\ Live
    /\ errStream # << >>
    /\ error' = Some(Head(errStream))
    /\ errStream' = Tail(errStream)
    /\ UNCHANGED <<procVars, envVars, sigVars, orchVars, phase, ppc, phaseResult,
                   subscribed, pkgStream, detStream, finStream, packages, details,
                   finished, svcFinished, svcError, svcCount, sessions, requests>>

PackageListener ==
    /\ Live
    /\ pkgStream # << >>
    /\ packages' = Append(packages, Head(pkgStream))
    /\ pkgStream' = Tail(pkgStream)
    /\ UNCHANGED <<procVars, envVars, sigVars, orchVars, phase, ppc, phaseResult,
                   subscribed, detStream, finStream, errStream, details,
                   finished, error, svcFinished, svcError, svcCount, sessions, requests>>

UpdateDetailListener ==
    /\ Live
    /\ detStream # << >>
    /\ details' = Insert(details, Head(detStream).package_id, is_security(Head(detStream)))
    /\ detStream' = Tail(detStream)
    /\ UNCHANGED <<procVars, envVars, sigVars, orchVars, phase, ppc, phaseResult,
                   subscribed, pkgStream, finStream, errStream, packages,
                   finished, error, svcFinished, svcError, svcCount, sessions, requests>>

\* ---- the package service, answering the request of the live session.  A
\* notification reaches a stream only if its category has a listener.
EmitFinished ==
    /\ Live
    /\ ~svcFinished
    /\ svcFinished' = TRUE
    /\ finStream' = IF "finished" \in subscribed THEN finStream + 1 ELSE finStream
    /\ UNCHANGED <<procVars, envVars, sigVars, orchVars, phase, ppc, phaseResult,
                   subscribed, pkgStream, detStream, errStream, packages, details,
                   finished, error, svcError, svcCount, sessions, requests>>

EmitError ==
    /\ Live
    /\ svcError = None
    /\ \E d \in ErrorDetails :
        /\ svcError' = Some(d)
        /\ errStream' = IF "error_code" \in subscribed THEN Append(errStream, d)
                        ELSE errStream
    /\ UNCHANGED <<procVars, envVars, sigVars, orchVars, phase, ppc, phaseResult,
                   subscribed, pkgStream, detStream, finStream, packages, details,
                   finished, error, svcFinished, svcCount, sessions, requests>>

EmitPackage ==
    /\ Live
    /\ phase = GetUpdates
    /\ ~svcFinished
    /\ svcCount < MaxPackages
    /\ svcCount' = svcCount + 1
    /\ \E id \in PkgIds :
        pkgStream' = IF "package" \in subscribed THEN Append(pkgStream, id) ELSE pkgStream
    /\ UNCHANGED <<procVars, envVars, sigVars, orchVars, phase, ppc, phaseResult,
                   subscribed, detStream, finStream, errStream, packages, details,
                   finished, error, svcFinished, svcError, sessions, requests>>

EmitUpdateDetail ==
    /\ Live
    /\ phase = GetUpdateDetails
    /\ ~svcFinished
    /\ svcCount < MaxDetails
    /\ svcCount' = svcCount + 1
    /\ \E i \in 1..Len(updates) : \E args \in DetailPayloads(updates[i]) :
        detStream' = IF "update_detail" \in subscribed THEN Append(detStream, args)
                     ELSE detStream
    /\ UNCHANGED <<procVars, envVars, sigVars, orchVars, phase, ppc, phaseResult,
                   subscribed, pkgStream, finStream, errStream, packages, details,
                   finished, error, svcFinished, svcError, sessions, requests>>

Session ==
    \/ CreateTransaction
    \/ Subscribe
    \/ IssueRequest
    \/ PollFinished
    \/ CheckError
    \/ FinishedListener
    \/ ErrorListener
    \/ PackageListener
    \/ UpdateDetailListener

Service ==
    \/ EmitFinished
    \/ EmitError
    \/ EmitPackage
    \/ EmitUpdateDetail

\* ------------------------------------------------- main.rs: run_update_check
\* run_update_check returns r
Return(r) ==
    /\ run_result' = Some(r)
    /\ rpc' = "returned"

\* `?` with .context(ctx) on a failed phase
Propagate(ctx) == Return(Err(<<ctx>> \o phaseResult[1].val))

CancelledVerdict == NagiosOutput("Critical", <<"Operation cancelled">>, None)
DeclinedVerdict == NagiosOutput("Critical", <<"Cancelled by user">>, None)
UpToDateVerdict ==
    NagiosOutput("Ok", <<"Everything is up to date">>, Some([total |-> 0, security |-> 0]))

\* line 97: PackageManager::new
PackageManagerNew ==
    /\ pc[Main] = "run_update_check"
    /\ rpc = "idle"
    /\ contacted' = [contacted EXCEPT ![Main] = TRUE]
    /\ \E connected \in BOOLEAN :
        IF connected
        THEN /\ rpc' = "entry_check"
             /\ UNCHANGED run_result
        ELSE Return(Err(<<"Failed to connect to system D-Bus">>))
    /\ UNCHANGED <<pc, config, acquired, last_run, now, output, exit_code, wrote,
                   envVars, sigVars, checks, updates, detailed_updates, sessionVars>>

\* lines 99-104: the entry checkpoint
EntryCheck ==
    /\ rpc = "entry_check"
    /\ checks' = [checks EXCEPT !.entry = Some(running)]
    /\ IF running
       THEN StartPhase(RefreshCache)
       ELSE /\ rpc' = "post_check"
            /\ UNCHANGED sessionVars
    /\ UNCHANGED <<procVars, envVars, sigVars, run_result, updates, detailed_updates>>

AfterRefresh ==
    /\ rpc = RefreshCache
    /\ ppc = "returned"
    /\ IF phaseResult[1].ok
       THEN /\ rpc' = "post_check"
            /\ UNCHANGED run_result
       ELSE Propagate("Failed to refresh package cache")
    /\ EndPhase
    /\ UNCHANGED <<procVars, envVars, sigVars, checks, updates, detailed_updates>>

NeverCancelled(flag) == FALSE

\* line 106: the test of the post-refresh checkpoint
IsCancelled(flag) == ~flag

\* lines 106-115: the post-refresh checkpoint
PostCheck ==
    /\ rpc = "post_check"
    /\ checks' = [checks EXCEPT !.post = Some(running)]
    /\ IF IsCancelled(running)
       THEN /\ Return(Ok(CancelledVerdict))
            /\ UNCHANGED sessionVars
       ELSE /\ StartPhase(GetUpdates)
            /\ UNCHANGED run_result
    /\ UNCHANGED <<procVars, envVars, sigVars, updates, detailed_updates>>

NeverEmpty(ids) == FALSE

\* line 117: updates.is_empty()
IsEmpty(ids) == ids = << >>

\* lines 115-130
AfterGetUpdates ==
    /\ rpc = GetUpdates
    /\ ppc = "returned"
    /\ IF ~phaseResult[1].ok
       THEN /\ Propagate("Failed to get updates")
            /\ EndPhase
            /\ UNCHANGED updates
       ELSE /\ updates' = phaseResult[1].val
            /\ IF IsEmpty(phaseResult[1].val)
               THEN /\ Return(Ok(UpToDateVerdict))
                    /\ EndPhase
               ELSE /\ StartPhase(GetUpdateDetails)
                    /\ UNCHANGED run_result
    /\ UNCHANGED <<procVars, envVars, sigVars, checks, detailed_updates>>

NoConfirmation(cfg) == FALSE

\* line 178: the user is asked unless non-interactive mode is configured
NeedsConfirmation(cfg) == ~cfg.non_interactive

\* lines 127-191, up to the confirmation
AfterGetUpdateDetails ==
    /\ rpc = GetUpdateDetails
    /\ ppc = "returned"
    /\ IF ~phaseResult[1].ok
       THEN /\ Propagate("Failed to get update details")
            /\ EndPhase
            /\ UNCHANGED detailed_updates
       ELSE LET detailed == phaseResult[1].val
                cfg == config[Main]
            IN  /\ detailed_updates' = detailed
                /\ UNCHANGED run_result
                /\ IF (cfg.apply_updates \/ cfg.apply_security_updates)
                      /\ updates_to_apply(cfg, detailed) # << >>
                   THEN IF NeedsConfirmation(cfg)
                        THEN /\ rpc' = "confirm"
                             /\ EndPhase
                        ELSE StartPhase(ApplyUpdates)
                   ELSE /\ rpc' = "scoring"
                        /\ EndPhase
    /\ UNCHANGED <<procVars, envVars, sigVars, checks, updates>>

\* str::to_lowercase on the characters that occur in the answers
ToLowercase(s) ==
    [i \in 1..Len(s) |->
        CASE s[i] = "Y" -> "y"
          [] s[i] = "N" -> "n"
          [] OTHER -> s[i]]

\* lines 214-224: prompt_confirmation on what read_line gave: the line
\* read from stdin (empty at end of input) or an I/O failure
prompt_confirmation(read) ==
    IF ~read.ok THEN read
    ELSE Ok(ToLowercase(Trim(read.val)) = <<"y">>)

ConfirmationInputs ==
    { Ok(<<"y", "\n">>), Ok(<<" ", "Y", "\n">>), Ok(<<"n", "\n">>),
      Ok(<<"y", "e", "s", "\n">>), Ok(<< >>), Err(<<"io error">>) }

\* line 178: the answer decides
Confirm ==
    /\ rpc = "confirm"
    /\ \E line \in ConfirmationInputs :
        LET answer == prompt_confirmation(line) IN
        IF ~answer.ok
        THEN /\ Return(answer)
             /\ UNCHANGED <<checks, sessionVars>>
        ELSE /\ checks' = [checks EXCEPT !.confirm = Some(answer.val)]
             /\ IF answer.val
                THEN /\ StartPhase(ApplyUpdates)
                     /\ UNCHANGED run_result
                ELSE /\ Return(Ok(DeclinedVerdict))
                     /\ UNCHANGED sessionVars
    /\ UNCHANGED <<procVars, envVars, sigVars, updates, detailed_updates>>

AfterApplyUpdates ==
    /\ rpc = ApplyUpdates
    /\ ppc = "returned"
    /\ IF phaseResult[1].ok
       THEN /\ rpc' = "scoring"
            /\ UNCHANGED run_result
       ELSE Propagate("Failed to apply updates")
    /\ EndPhase
    /\ UNCHANGED <<procVars, envVars, sigVars, checks, updates, detailed_updates>>

\* lines 151-168: the lines of the report
RECURSIVE DetailLines(_, _)
DetailLines(detailed, cfg) ==
    IF detailed = << >> THEN << >>
    ELSE LET u == Head(detailed) IN
         (IF u.is_security \/ cfg.apply_updates
          THEN <<u.name, u.version, IF u.is_security THEN " (SECURITY)" ELSE "">>
          ELSE << >>) \o DetailLines(Tail(detailed), cfg)

SeverityWarningFirst(security_count, cfg) ==
    IF security_count >= cfg.warning_threshold THEN "Warning"
    ELSE IF security_count >= cfg.critical_threshold THEN "Critical"
    ELSE "Ok"

\* lines 193-199
Severity(security_count, cfg) ==
    IF security_count >= cfg.critical_threshold THEN "Critical"
    ELSE IF security_count >= cfg.warning_threshold THEN "Warning"
    ELSE "Ok"

\* lines 132-168 and 193-211
Scoring ==
    /\ rpc = "scoring"
    /\ LET cfg == config[Main]
           total_count == Len(detailed_updates)
           security_count == Len(SelectSecurity(detailed_updates))
           lines == <<"Security updates:">> \o DetailLines(detailed_updates, cfg)
                    \o (IF security_count = 0 /\ ~cfg.apply_updates
                        THEN <<"(none)">> ELSE << >>)
       IN  Return(Ok(NagiosOutput(Severity(security_count, cfg),
                                  <<"Security-Update | Total Update">> \o lines,
                                  Some([total |-> total_count,
                                        security |-> security_count]))))
    /\ UNCHANGED <<procVars, envVars, sigVars, checks, updates, detailed_updates,
                   sessionVars>>

\* main lines 79-93 on what run_update_check returned
MainReport ==
    /\ pc[Main] = "run_update_check"
    /\ rpc = "returned"
    /\ Report(Main, run_result[1])
    /\ UNCHANGED <<config, acquired, last_run, now, wrote, contacted, fileBody, clock,
                   runVars>>

RunUpdateCheck ==
    \/ PackageManagerNew
    \/ EntryCheck
    \/ AfterRefresh
    \/ PostCheck
    \/ AfterGetUpdates
    \/ AfterGetUpdateDetails
    \/ Confirm
    \/ AfterApplyUpdates
    \/ Scoring
    \/ MainReport

\* run_update_check as one step, for the processes whose exchange with the
\* package service is not followed notification by notification: the service
\* is contacted and main reports whatever run_update_check returned
SummaryResults ==
    { Ok(NagiosOutput("Ok", <<"Everything is up to date">>,
                      Some([total |-> 0, security |-> 0]))),
      Ok(NagiosOutput("Critical", <<"Operation cancelled">>, None)),
      Err(<<"Failed to refresh package cache">>) }

RunUpdateCheckSummary(p) ==
    /\ pc[p] = "run_update_check"
    /\ contacted' = [contacted EXCEPT ![p] = TRUE]
    /\ \E result \in SummaryResults : Report(p, result)
    /\ UNCHANGED <<config, acquired, last_run, now, wrote, fileBody, clock>>

\* ---------------------------------------------------------- environment
ClockTimes ==
    << DateTime(1972, 1, 29, 13, 15, 30, 500),
       DateTime(1972, 1, 29, 13, 47, 0, 0),
       DateTime(1972, 1, 29, 14, 15, 30, 500) >>

\* time passes
Tick ==
    /\ \E i \in 1..(Len(ClockTimes) - 1) :
        /\ clock = ClockTimes[i]
        /\ clock' = ClockTimes[i + 1]
    /\ UNCHANGED <<procVars, lockHolders, fileBody>>

\* ------------------------------------------------ inputs of the evaluator
Epoch == DateTime(1970, 1, 1, 0, 0, 0, 0)

MinuteWords == {Star, NumWord(0), NumWord(30)} \cup {StepWord(s) : s \in 1..MaxStep}
HourWords == {Star, NumWord(0), NumWord(23)} \cup {StepWord(s) : s \in 1..MaxStep}
DayWords == {Star, NumWord(1), NumWord(31)} \cup {StepWord(s) : s \in 1..MaxStep}
MonthWords == {Star, NumWord(1), NumWord(2)} \cup {StepWord(s) : s \in 1..MaxStep}

FourFieldSpecs ==
    {<<a, b, c, d>> : a \in MinuteWords, b \in HourWords, c \in DayWords, d \in MonthWords}

AliasSpecs == {<<Alias(a)>> : a \in AliasNames}

MalformedSpecs ==
    { <<Star, Star, Star>>, <<Star, Star, Star, Star, Star>>, << >>,
      <<Junk, Star, Star, Star>>, <<StepWord(0), Star, Star, Star>>,
      <<NumWord(60), Star, Star, Star>>, <<Star, NumWord(24), Star, Star>>,
      <<Star, Star, NumWord(0), Star>>, <<Star, Star, Star, NumWord(13)>>,
      <<Alias("@weekly")>> }

EvalSpecs == FourFieldSpecs \cup AliasSpecs \cup MalformedSpecs

EvalNows ==
    ({ DateTime(1972, mo, d, 13, mi, sn[1], sn[2]) :
        mo \in {1, 2, 12}, d \in {1, 29, 31}, mi \in {15, 47},
        sn \in {<<0, 0>>, <<30, 500>>} }
     \cup { DateTime(1970, 1, 1, 0, 0, 1, 0), DateTime(1970, 1, 1, 13, 15, 0, 0),
            DateTime(1970, 1, 1, 13, 15, 30, 500), DateTime(1970, 1, 2, 0, 0, 0, 0) })
    \ { t \in [year : {1972}, month : {2}, day : {31}, hour : {13},
               minute : {15, 47}, second : {0, 30}, nano : {0, 500}] : TRUE }

EvalLastRuns == {Epoch, DateTime(1972, 1, 29, 13, 0, 0, 0)}

\* ------------------------------------------------------------- CronEval
\* no process runs
ProcIdle ==
    /\ pc = << >>
    /\ config = << >>
    /\ acquired = << >>
    /\ last_run = << >>
    /\ now = << >>
    /\ output = << >>
    /\ exit_code = << >>
    /\ wrote = << >>
    /\ contacted = << >>

RunIdle ==
    /\ running = TRUE
    /\ lastSignal = None
    /\ checks = [entry |-> None, post |-> None, confirm |-> None]
    /\ rpc = "idle"
    /\ phase = "none"
    /\ ppc = "none"
    /\ phaseResult = None
    /\ run_result = None
    /\ updates = << >>
    /\ detailed_updates = << >>
    /\ subscribed = {}
    /\ pkgStream = << >>
    /\ detStream = << >>
    /\ finStream = 0
    /\ errStream = << >>
    /\ packages = << >>
    /\ details = << >>
    /\ finished = FALSE
    /\ error = None
    /\ svcFinished = FALSE
    /\ svcError = None
    /\ svcCount = 0
    /\ sessions = << >>
    /\ requests = << >>

EnvIdle ==
    /\ lockHolders = {}
    /\ fileBody = << >>
    /\ clock = Epoch

EvalInit ==
    /\ evPc = "start"
    /\ evSpec \in EvalSpecs
    /\ evNow \in EvalNows
    /\ evCron = None
    /\ evPeriod = None
    /\ evLast = None
    /\ evDue = None
    /\ ProcIdle
    /\ EnvIdle
    /\ RunIdle

\* parse_cron_spec on the schedule text
EvalParse ==
    /\ evPc = "start"
    /\ evCron' = Some(parse_cron_spec(evSpec))
    /\ evPc' = IF parse_cron_spec(evSpec).ok THEN "parsed" ELSE "rejected"
    /\ UNCHANGED <<evSpec, evNow, evPeriod, evLast, evDue, procVars, envVars, runVars>>

\* calculate_last_period on the parsed schedule
EvalPeriod ==
    /\ evPc = "parsed"
    /\ evPeriod' = Some(calculate_last_period(evCron[1].val, evNow))
    /\ evPc' = "period"
    /\ UNCHANGED <<evSpec, evNow, evCron, evLast, evDue, procVars, envVars, runVars>>

\* should_run with a last run drawn from the inputs, or with the boundary
\* just computed as the last run
EvalShouldRun ==
    /\ evPc = "period"
    /\ \E last \in EvalLastRuns \cup {evPeriod[1]} :
        /\ evLast' = Some(last)
        /\ evDue' = Some(should_run(evSpec, last, evNow))
    /\ evPc' = "done"
    /\ UNCHANGED <<evSpec, evNow, evCron, evPeriod, procVars, envVars, runVars>>

EvalNext == EvalParse \/ EvalPeriod \/ EvalShouldRun

CronEval == EvalInit /\ [][EvalNext]_vars

\* ------------------------------------------------------------- LockSpec
\* NumProcs invocations of the program on the same lock path
Procs == 1..NumProcs

DefaultConfig(lock, cron) ==
    [lock_file |-> lock, cron_spec |-> cron,
     warning_threshold |-> 10, critical_threshold |-> 20,
     apply_security_updates |-> FALSE, apply_updates |-> FALSE,
     non_interactive |-> FALSE]

Hourly == <<Alias("@hourly")>>
Malformed == <<Star, Star, Star>>

LockConfigs ==
    {DefaultConfig(lock, cron) :
        lock \in BOOLEAN, cron \in {None, Some(Hourly), Some(Malformed)}}

InitialBodies ==
    { << >>, <<"0">>, <<"x">>,
      write_timestamp(DateTime(1972, 1, 29, 13, 0, 0, 0)) \o <<"\n">> }

ProcInit(configs) ==
    /\ pc = [p \in Procs |-> "from_args"]
    /\ config \in [Procs -> configs]
    /\ acquired = [p \in Procs |-> None]
    /\ last_run = [p \in Procs |-> None]
    /\ now = [p \in Procs |-> None]
    /\ output = [p \in Procs |-> None]
    /\ exit_code = [p \in Procs |-> None]
    /\ wrote = [p \in Procs |-> FALSE]
    /\ contacted = [p \in Procs |-> FALSE]

EvalIdle ==
    /\ evPc = "idle"
    /\ evSpec = << >>
    /\ evNow = Epoch
    /\ evCron = None
    /\ evPeriod = None
    /\ evLast = None
    /\ evDue = None

LockInit ==
    /\ ProcInit(LockConfigs)
    /\ lockHolders = {}
    /\ fileBody \in InitialBodies
    /\ clock = ClockTimes[1]
    /\ EvalIdle
    /\ RunIdle

LockNext ==
    \/ \E p \in Procs : Prologue(p) /\ UNCHANGED <<evalVars, runVars>>
    \/ \E p \in Procs : RunUpdateCheckSummary(p) /\ UNCHANGED <<evalVars, runVars>>
    \/ Tick /\ UNCHANGED <<evalVars, runVars>>

LockSpec == LockInit /\ [][LockNext]_vars

\* ----------------------------------------------------------------- Spec
\* One invocation followed through main and run_update_check; the other
\* processes are instances that either have not run or hold the lock.
RunConfig(sec, all, yes) ==
    [lock_file |-> TRUE, cron_spec |-> None,
     warning_threshold |-> 1, critical_threshold |-> 2,
     apply_security_updates |-> sec, apply_updates |-> all, non_interactive |-> yes]

RunConfigs ==
    { RunConfig(FALSE, FALSE, FALSE),
      RunConfig(TRUE, FALSE, FALSE), RunConfig(TRUE, FALSE, TRUE),
      RunConfig(FALSE, TRUE, FALSE), RunConfig(TRUE, TRUE, TRUE),
      [RunConfig(FALSE, FALSE, FALSE) EXCEPT !.cron_spec = Some(Hourly)] }

RunBodies == { << >>, <<"0">>, write_timestamp(DateTime(1972, 1, 29, 13, 0, 0, 0)) }

Init ==
    /\ \E holders \in {{}} \cup {{q} : q \in Procs \ {Main}} :
        /\ lockHolders = holders
        /\ pc = [p \in Procs |-> IF p \in holders THEN "run_update_check" ELSE "from_args"]
        /\ acquired = [p \in Procs |-> IF p \in holders THEN Some(TRUE) ELSE None]
    /\ config \in [Procs -> RunConfigs]
    /\ \A p \in Procs \ {Main} : config[p] = config[Main]
    /\ last_run = [p \in Procs |-> None]
    /\ now = [p \in Procs |-> None]
    /\ output = [p \in Procs |-> None]
    /\ exit_code = [p \in Procs |-> None]
    /\ wrote = [p \in Procs |-> FALSE]
    /\ contacted = [p \in Procs |-> FALSE]
    /\ fileBody \in RunBodies
    /\ config[Main].cron_spec = None => fileBody = << >>
    /\ clock = ClockTimes[1]
    /\ EvalIdle
    /\ RunIdle

Next ==
    \/ Prologue(Main) /\ UNCHANGED <<evalVars, runVars>>
    \/ \E sig \in Signals : SignalTask(sig) /\ UNCHANGED evalVars
    \/ RunUpdateCheck /\ UNCHANGED evalVars
    \/ Session /\ UNCHANGED evalVars
    \/ Service /\ UNCHANGED evalVars

Spec == Init /\ [][Next]_vars

\* ------------------------------------------------------------- FairSpec
\* The runs of Spec that apply updates (all of them after a confirmation, or
\* the security ones without), with the lock free, under the scheduling the
\* runtime gives: main and run_update_check
\* keep running, a spawned listener whose stream holds a notification is
\* eventually polled, and the poll loop wakes every 100 ms.  The user is
\* taken to answer the confirmation prompt.  Nothing is assumed of the
\* package service or of signals.
Fairness ==
    /\ WF_vars(Prologue(Main) /\ UNCHANGED <<evalVars, runVars>>)
    /\ WF_vars(RunUpdateCheck /\ UNCHANGED evalVars)
    /\ WF_vars((CreateTransaction \/ Subscribe \/ IssueRequest) /\ UNCHANGED evalVars)
    /\ WF_vars((PollFinished \/ CheckError) /\ UNCHANGED evalVars)
    /\ WF_vars(FinishedListener /\ UNCHANGED evalVars)
    /\ WF_vars(ErrorListener /\ UNCHANGED evalVars)
    /\ WF_vars(PackageListener /\ UNCHANGED evalVars)
    /\ WF_vars(UpdateDetailListener /\ UNCHANGED evalVars)

FairConfigs == {RunConfig(FALSE, TRUE, FALSE), RunConfig(TRUE, FALSE, TRUE)}

FairInit ==
    /\ Init
    /\ config[Main] \in FairConfigs
    /\ lockHolders = {}

FairSpec == FairInit /\ [][Next]_vars /\ Fairness

\* ----------------------------------------------------------- PeriodSpec
\* Scheduled invocations with the same valid schedule on the same lock file,
\* started at different times of one afternoon.
PeriodConfigs == {DefaultConfig(TRUE, Some(<<Alias(a)>>)) : a \in {"@hourly", "@daily"}}

PeriodTimes ==
    { DateTime(1972, 1, 29, 13, 0, 0, 500),
      DateTime(1972, 1, 29, 13, 15, 30, 500),
      DateTime(1972, 1, 29, 13, 47, 0, 0),
      DateTime(1972, 1, 29, 14, 15, 30, 500) }

\* time passes
PeriodTick ==
    /\ \E t \in PeriodTimes :
        /\ TimeLT(clock, t)
        /\ clock' = t
    /\ UNCHANGED <<procVars, lockHolders, fileBody>>

PeriodInit ==
    /\ ProcInit(PeriodConfigs)
    /\ \A p \in Procs : config[p] = config[Main]
    /\ lockHolders = {}
    /\ fileBody \in {<< >>, <<"0">>}
    /\ clock \in PeriodTimes
    /\ EvalIdle
    /\ RunIdle

PeriodNext ==
    \/ \E p \in Procs : Prologue(p) /\ UNCHANGED <<evalVars, runVars>>
    \/ \E p \in Procs : RunUpdateCheckSummary(p) /\ UNCHANGED <<evalVars, runVars>>
    \/ PeriodTick /\ UNCHANGED <<evalVars, runVars>>

PeriodSpec == PeriodInit /\ [][PeriodNext]_vars

\* ------------------------------------------------------------ ScoreSpec
\* The scoring step on its own: run_update_check has the records of the
\* detail-fetch phase in hand (at least one, since an empty enumeration
\* returns earlier) and any pair of thresholds from the command line.
ScoreConfigs ==
    { [RunConfig(FALSE, all, FALSE) EXCEPT !.warning_threshold = w,
                                           !.critical_threshold = c] :
        all \in BOOLEAN, w \in 0..MaxThreshold, c \in 0..MaxThreshold }

ScoreRecords == {parse_package_id(id, sec)[1] : id \in PkgIds, sec \in BOOLEAN}

ScoreInputs == UNION {[1..n -> ScoreRecords] : n \in 1..MaxPackages}

ScoreInit ==
    /\ pc = [p \in Procs |-> IF p = Main THEN "run_update_check" ELSE "from_args"]
    /\ config \in [Procs -> ScoreConfigs]
    /\ \A p \in Procs \ {Main} : config[p] = config[Main]
    /\ acquired = [p \in Procs |-> IF p = Main THEN Some(TRUE) ELSE None]
    /\ last_run = [p \in Procs |-> None]
    /\ now = [p \in Procs |-> None]
    /\ output = [p \in Procs |-> None]
    /\ exit_code = [p \in Procs |-> None]
    /\ wrote = [p \in Procs |-> FALSE]
    /\ contacted = [p \in Procs |-> p = Main]
    /\ lockHolders = {Main}
    /\ fileBody = << >>
    /\ clock = ClockTimes[1]
    /\ EvalIdle
    /\ running = TRUE
    /\ lastSignal = None
    /\ checks = [entry |-> Some(TRUE), post |-> Some(TRUE), confirm |-> None]
    /\ rpc = "scoring"
    /\ run_result = None
    /\ detailed_updates \in ScoreInputs
    /\ updates = [i \in 1..Len(detailed_updates) |-> detailed_updates[i].package_id]
    /\ phase = "none"
    /\ ppc = "none"
    /\ phaseResult = None
    /\ subscribed = {}
    /\ pkgStream = << >>
    /\ detStream = << >>
    /\ finStream = 0
    /\ errStream = << >>
    /\ packages = << >>
    /\ details = << >>
    /\ finished = FALSE
    /\ error = None
    /\ svcFinished = FALSE
    /\ svcError = None
    /\ svcCount = 0
    /\ sessions = <<RefreshCache, GetUpdates, GetUpdateDetails>>
    /\ requests = <<RefreshCache, GetUpdates, GetUpdateDetails>>

ScoreNext ==
    \/ Scoring /\ UNCHANGED evalVars
    \/ MainReport /\ UNCHANGED evalVars

ScoreSpec == ScoreInit /\ [][ScoreNext]_vars

\* ------------------------------------------------------------- claims
Range(seq) == {seq[i] : i \in 1..Len(seq)}

\* C2: in the apply phase, when the service has delivered both a finished
\* and an error notification, apply_updates returns a failure carrying the
\* error's detail text, never success.
C2_ErrorPrecedence ==
    (phase = ApplyUpdates /\ ppc = "returned" /\ svcFinished /\ svcError # None) =>
        phaseResult = Some(Err(<<"Package update failed", svcError[1]>>))

\* C3: in every phase an error notification reported after the request was
\* issued makes the phase fail; run_update_check then returns that failure
\* without starting another phase, and main reports Critical with exit code 2
\* and a message that includes the detail text.
C3_ErrorIsCritical ==
    [][ /\ (Live /\ ppc' = "returned" /\ svcError # None) =>
            /\ ~phaseResult'[1].ok
            /\ svcError[1] \in Range(phaseResult'[1].val)
        /\ (ppc = "returned" /\ svcError # None /\ rpc' # rpc) =>
            /\ rpc' = "returned"
            /\ ~run_result'[1].ok
            /\ svcError[1] \in Range(run_result'[1].val)
            /\ sessions' = sessions
        /\ (pc[Main] # "exited" /\ pc'[Main] = "exited"
                /\ run_result # None /\ ~run_result[1].ok) =>
            /\ exit_code'[Main] = Some(2)
            /\ output'[Main][1].status = "Critical"
            /\ output'[Main][1].message = <<"An error occurred", run_result[1].val>>
      ]_vars

\* C6 as stated: each of the four signals sets the cancellation flag when the
\* signal task receives it, and the flag once set is never cleared.
C6_EverySignalSetsFlag ==
    [][ /\ lastSignal' # lastSignal => ~running'
        /\ ~running => ~running' ]_vars

\* C6 amended: interrupt, terminate and quit set the flag, hangup leaves it
\* as it is, and the flag once set is never cleared.
C6_TerminatingSignalsSetFlag ==
    [][ /\ lastSignal' \in {Some("SIGTERM"), Some("SIGINT"), Some("SIGQUIT")} => ~running'
        /\ (lastSignal' = Some("SIGHUP") /\ lastSignal' # lastSignal) => running' = running
        /\ ~running => ~running' ]_vars

C6_Witness ==
    /\ lastSignal = Some("SIGHUP")
    /\ ~running
    /\ rpc = GetUpdateDetails

\* C7: when the entry checkpoint finds the flag set, no refresh session is
\* created; when the post-refresh checkpoint finds it set, no enumerate,
\* detail-fetch or apply session or request ever exists and the run ends with
\* the Critical 'Operation cancelled' verdict.
C7_Checkpoints ==
    /\ checks.entry = Some(FALSE) =>
        /\ RefreshCache \notin Range(sessions)
        /\ phase # RefreshCache
    /\ checks.post = Some(FALSE) =>
        /\ \A ph \in {GetUpdates, GetUpdateDetails, ApplyUpdates} :
            ph \notin Range(sessions) /\ ph \notin Range(requests) /\ phase # ph
        /\ run_result = Some(Ok(CancelledVerdict))
        /\ pc[Main] = "exited" =>
            (output[Main] = Some(CancelledVerdict) /\ exit_code[Main] = Some(2))
    /\ (~running /\ rpc \in {"idle", "entry_check"}) => checks.entry # Some(TRUE)
    /\ (~running /\ checks.post = None) =>
        \A ph \in {GetUpdates, GetUpdateDetails, ApplyUpdates} : ph \notin Range(requests)

C7_Witness ==
    /\ checks.entry = Some(TRUE)
    /\ checks.post = Some(FALSE)
    /\ RefreshCache \in Range(requests)
    /\ pc[Main] = "exited"


\* C1: of the processes started on the same lock path at most one holds the
\* lock at any time, and a process that did not acquire it never reads or
\* writes the timestamp and never contacts the package service.
C1_MutualExclusion ==
    /\ Cardinality({p \in Procs : pc[p] # "exited" /\ acquired[p] = Some(TRUE)}) <= 1
    /\ \A p \in Procs :
        (config[p].lock_file /\ acquired[p] # Some(TRUE)) =>
            (now[p] = None /\ ~wrote[p] /\ ~contacted[p])

C1_Witness ==
    \E p, q \in Procs :
        /\ p # q
        /\ pc[p] = "run_update_check" /\ acquired[p] = Some(TRUE) /\ wrote[p]
        /\ acquired[q] = Some(FALSE)

\* C4: a configuration error (a schedule without a lock path, or a malformed
\* schedule) is fatal at startup: whatever the lock file holds, the process
\* neither contacts the package service nor rewrites the timestamp.
ConfigurationError(p) ==
    /\ config[p].cron_spec # None
    /\ \/ ~config[p].lock_file
       \/ ~parse_cron_spec(config[p].cron_spec[1]).ok

C4_ConfigErrorFatal ==
    \A p \in Procs : ConfigurationError(p) => (~contacted[p] /\ ~wrote[p])

\* C5: when the lock is held by another process the run never contacts the
\* service and never changes the timestamp; with a schedule it exits 0 with
\* no verdict, without one it prints a Warning verdict and exits 1.
C5_LockContention ==
    \A p \in Procs :
        acquired[p] = Some(FALSE) =>
            /\ pc[p] = "exited"
            /\ ~contacted[p] /\ ~wrote[p] /\ now[p] = None
            /\ config[p].cron_spec # None =>
                (exit_code[p] = Some(0) /\ output[p] = None)
            /\ config[p].cron_spec = None =>
                /\ exit_code[p] = Some(1)
                /\ output[p] # None
                /\ output[p][1].status = "Warning"

C5_Witness ==
    \E p, q \in Procs :
        /\ acquired[q] = Some(TRUE) /\ pc[q] = "run_update_check"
        /\ acquired[p] = Some(FALSE) /\ config[p].cron_spec = None
        /\ output[p] = Some(NagiosOutput("Warning", <<"Failed to acquire lock file">>, None))


\* C9: for every valid 4-field schedule and every now, the candidate period
\* boundary computed by calculate_last_period is never later than now.
C9_BoundaryNotLaterThanNow ==
    evPeriod # None => ~TimeGT(evPeriod[1], evNow)

\* C10: should_run is false when last_run equals the period boundary computed
\* for the same schedule and the same now (the due test is strict).
C10_NotDueAtBoundary ==
    (evPc = "done" /\ evLast = evPeriod) => evDue = Some(Ok(FALSE))

C10_Witness ==
    /\ evPc = "done"
    /\ evLast = evPeriod
    /\ evPeriod[1] # evNow
    /\ evDue = Some(Ok(FALSE))

\* C11 as stated: with last_run at the epoch and the schedule '@daily',
\* should_run returns true for every now later than the epoch.
C11_DailyDueAfterEpoch ==
    (evPc = "done" /\ evSpec = <<Alias("@daily")>> /\ evLast = Some(Epoch)
        /\ TimeGT(evNow, Epoch)) =>
        evDue = Some(Ok(TRUE))

OnLaterDay(t, u) ==
    \/ t.year > u.year
    \/ t.year = u.year /\ t.month > u.month
    \/ t.year = u.year /\ t.month = u.month /\ t.day > u.day

\* C11 amended: with last_run at the epoch and the schedule '@daily',
\* should_run returns true for every now on a calendar day after the epoch's
\* day, and false for a now at a whole second of the epoch's own day (its
\* daily boundary is the epoch itself, which is not later than last_run).
C11_DailyDueOnLaterDay ==
    (evPc = "done" /\ evSpec = <<Alias("@daily")>> /\ evLast = Some(Epoch)) =>
        /\ OnLaterDay(evNow, Epoch) => evDue = Some(Ok(TRUE))
        /\ (~OnLaterDay(evNow, Epoch) /\ evNow.nano = 0) => evDue = Some(Ok(FALSE))

C11_Witness ==
    /\ evPc = "done"
    /\ evSpec = <<Alias("@daily")>>
    /\ evLast = Some(Epoch)
    /\ evNow = DateTime(1970, 1, 2, 0, 0, 0, 0)
    /\ evDue = Some(Ok(TRUE))

\* C12: an apply request is issued only if an apply mode is configured, the
\* apply set (all records in apply-all mode, else the security records) is
\* non-empty, and non-interactive mode is configured or the user confirmed;
\* when the user declines, no apply session is ever created and the run ends
\* with the Critical 'Cancelled by user' verdict.
C12_ApplyOnlyWhenAllowed ==
    LET cfg == config[Main] IN
    /\ (ApplyUpdates \in Range(requests) \/ ApplyUpdates \in Range(sessions)) =>
        /\ cfg.apply_updates \/ cfg.apply_security_updates
        /\ IF cfg.apply_updates THEN detailed_updates # << >>
           ELSE \E i \in 1..Len(detailed_updates) : detailed_updates[i].is_security
        /\ cfg.non_interactive \/ checks.confirm = Some(TRUE)
    /\ checks.confirm = Some(FALSE) =>
        /\ ApplyUpdates \notin Range(sessions)
        /\ phase # ApplyUpdates
        /\ run_result = Some(Ok(DeclinedVerdict))
        /\ pc[Main] = "exited" =>
            (output[Main] = Some(DeclinedVerdict) /\ exit_code[Main] = Some(2))

C12_Witness ==
    /\ ~config[Main].non_interactive
    /\ ~config[Main].apply_updates
    /\ checks.confirm = Some(TRUE)
    /\ ApplyUpdates \in Range(requests)
    /\ Len(detailed_updates) = 2

\* C13: when get_updates returns no identifier, run_update_check returns at
\* once an Ok verdict whose total and security counters are both zero; no
\* detail-fetch or apply session exists then or later, and main prints that
\* verdict and exits with code 0.
C13_NoUpdatesIsOk ==
    [][ /\ (rpc = GetUpdates /\ ppc = "returned" /\ phaseResult[1].ok
                /\ phaseResult[1].val = << >> /\ rpc' # rpc) =>
            /\ rpc' = "returned"
            /\ run_result' = Some(Ok(UpToDateVerdict))
            /\ run_result'[1].val.status = "Ok"
            /\ run_result'[1].val.perfdata = Some([total |-> 0, security |-> 0])
            /\ GetUpdateDetails \notin Range(sessions')
            /\ ApplyUpdates \notin Range(sessions')
            /\ phase' = "none"
        /\ run_result = Some(Ok(UpToDateVerdict)) =>
            /\ sessions' = sessions
            /\ requests' = requests
            /\ phase' = "none"
            /\ pc'[Main] = "exited" =>
                (output'[Main] = Some(UpToDateVerdict) /\ exit_code'[Main] = Some(0))
      ]_vars

C13_Witness ==
    /\ GetUpdates \in Range(requests)
    /\ run_result = Some(Ok(UpToDateVerdict))
    /\ output[Main] = Some(UpToDateVerdict)
    /\ pc[Main] = "exited"

\* C14: get_update_details returns exactly one record per identifier it was
\* given, in the given order, duplicates included; a record's security flag
\* is the classification stored for its identifier by the update-detail
\* listener (a CVE list that is not empty, or a CVE mention in the text or
\* the changelog, of the notification it handled), and false when the
\* listener stored none.
C14_OneRecordPerIdentifier ==
    /\ [](  (phase = GetUpdateDetails /\ ppc = "returned" /\ phaseResult[1].ok) =>
            LET res == phaseResult[1].val IN
            /\ Len(res) = Len(updates)
            /\ \A i \in 1..Len(updates) :
                /\ res[i].package_id = updates[i]
                /\ res[i].is_security =
                    (updates[i] \in DOMAIN details /\ details[updates[i]]) )
    /\ [][ (detStream # << >> /\ detStream' = Tail(detStream) /\ phase' = phase) =>
            LET args == Head(detStream) IN
            /\ DOMAIN details' = DOMAIN details \cup {args.package_id}
            /\ details'[args.package_id] =
                (args.cve_urls # << >> \/ args.update_text_has_cve
                    \/ args.changelog_has_cve)
            /\ \A id \in DOMAIN details \ {args.package_id} : details'[id] = details[id]
         ]_vars

C14_Witness ==
    /\ phase = GetUpdateDetails
    /\ ppc = "returned"
    /\ phaseResult[1].ok
    /\ Len(phaseResult[1].val) = 2
    /\ updates[1] \notin DOMAIN details
    /\ ~phaseResult[1].val[1].is_security
    /\ phaseResult[1].val[2].is_security

SecurityCount == Cardinality({i \in 1..Len(detailed_updates) : detailed_updates[i].is_security})

\* C15: the verdict of the scoring step is Critical if the number of security
\* records is at least the critical threshold, otherwise Warning if it is at
\* least the warning threshold, otherwise Ok, for every count and every pair
\* of thresholds; a count that meets both thresholds gives Critical.
C15_SeverityByThresholds ==
    (rpc = "returned" /\ run_result # None /\ run_result[1].ok) =>
        LET cfg == config[Main]
            verdict == run_result[1].val
        IN  /\ SecurityCount >= cfg.critical_threshold => verdict.status = "Critical"
            /\ (SecurityCount < cfg.critical_threshold
                    /\ SecurityCount >= cfg.warning_threshold) => verdict.status = "Warning"
            /\ (SecurityCount < cfg.critical_threshold
                    /\ SecurityCount < cfg.warning_threshold) => verdict.status = "Ok"
            /\ verdict.perfdata =
                Some([total |-> Len(detailed_updates), security |-> SecurityCount])

C15_Witness ==
    /\ rpc = "returned"
    /\ SecurityCount = 2
    /\ config[Main].warning_threshold = 1
    /\ config[Main].critical_threshold = 2
    /\ run_result[1].val.status = "Critical"

\* C16 as stated: every run that ends has emitted a verdict, and the verdict
\* is terminal: after it nothing is requested from the service and no state
\* changes.
C16_EveryRunEmitsVerdict ==
    [][ /\ pc'[Main] = "exited" => output'[Main] # None
        /\ output[Main] # None => UNCHANGED vars ]_vars

\* C16 amended: a verdict is emitted at most once and it is terminal (the
\* process has exited, nothing is requested from the service afterwards and
\* no state changes); a run that ends after run_update_check returned, or on
\* lock contention without a schedule, has emitted exactly one verdict, and a
\* run that ends anywhere else in main's prologue has emitted none.
C16_VerdictOnceAndTerminal ==
    [][ /\ output'[Main] # None => pc'[Main] = "exited"
        /\ output[Main] # None => UNCHANGED vars
        /\ pc[Main] = "exited" => UNCHANGED vars
        /\ pc'[Main] = "exited" =>
            (output'[Main] # None <=>
                \/ run_result' # None
                \/ acquired'[Main] = Some(FALSE) /\ config'[Main].cron_spec = None)
      ]_vars

C16_Witness ==
    /\ pc[Main] = "exited"
    /\ output[Main] # None
    /\ ApplyUpdates \in Range(requests)

SeverityCode == [Ok |-> 0, Warning |-> 1, Critical |-> 2, Unknown |-> 3]

\* C17: whenever a verdict has been emitted, the exit code of the process is
\* the code of the verdict's severity: Ok 0, Warning 1, Critical 2, Unknown 3;
\* NagiosStatus::exit_code is that mapping.
C17_ExitCodeMirrorsSeverity ==
    /\ \A p \in Procs : output[p] # None =>
        exit_code[p] = Some(SeverityCode[output[p][1].status])
    /\ \A st \in DOMAIN SeverityCode : exit_code_of(st) = SeverityCode[st]

C17_Witness ==
    /\ output[Main] # None
    /\ output[Main][1].status = "Warning"
    /\ output[Main][1].perfdata # None
    /\ exit_code[Main] = Some(1)

\* the schedule of p permits execution: it is a valid schedule and there is
\* no last run, or its period boundary for now is later than the last run
SchedulePermits(p) ==
    LET cron == parse_cron_spec(config[p].cron_spec[1]) IN
    /\ cron.ok
    /\ \/ last_run[p] = None
       \/ TimeGT(calculate_last_period(cron.val, now[p][1]), last_run[p][1])

\* C18: the lock file's body changes only by the write of an invocation that
\* has a schedule, holds the lock and whose schedule permits execution, and
\* that write leaves the decimal seconds of the invocation's current time and
\* happens before the invocation contacts the package service; an invocation
\* without a schedule, one that did not get the lock and one that was skipped
\* never write, and a scheduled invocation that contacts the service has
\* written.
C18_TimestampFrame ==
    [][ /\ fileBody' # fileBody => \E p \in Procs : wrote'[p] /\ ~wrote[p]
        /\ \A p \in Procs : (wrote'[p] /\ ~wrote[p]) =>
            /\ config[p].cron_spec # None
            /\ acquired[p] = Some(TRUE)
            /\ p \in lockHolders
            /\ SchedulePermits(p)
            /\ fileBody' = FormatI64(timestamp(now[p][1]))
            /\ ~contacted[p]
        /\ \A p \in Procs :
            /\ config[p].cron_spec = None => ~wrote'[p]
            /\ acquired'[p] # Some(TRUE) => ~wrote'[p]
            /\ (contacted'[p] /\ config[p].cron_spec # None) => wrote'[p]
      ]_vars

\* the notification categories each phase uses
UsedCategories ==
    [refresh_cache |-> {"finished"},
     get_updates |-> {"package", "finished"},
     get_update_details |-> {"update_detail", "finished"},
     apply_updates |-> {"finished", "error_code"}]

\* C19: in every phase, the listeners of all categories the phase uses exist
\* from the moment the request is made, so every notification of such a
\* category that the service emits for the request reaches its listener's
\* stream.
C19_SubscribedBeforeRequest ==
    [][ /\ ppc' \in {"request", "poll", "check_error"} =>
            subscribed' = UsedCategories[phase']
        /\ (requests' # requests) => subscribed = UsedCategories[phase]
        /\ (~svcFinished /\ svcFinished') => finStream' = finStream + 1
        /\ (svcCount' = svcCount + 1 /\ phase = GetUpdates) =>
            Len(pkgStream') = Len(pkgStream) + 1
        /\ (svcCount' = svcCount + 1 /\ phase = GetUpdateDetails) =>
            Len(detStream') = Len(detStream) + 1
        /\ (svcError = None /\ svcError' # None /\ phase = ApplyUpdates) =>
            errStream' = Append(errStream, svcError'[1])
      ]_vars

C19_Witness ==
    /\ phase = GetUpdates
    /\ ppc = "poll"
    /\ subscribed = {"package", "finished"}
    /\ Len(pkgStream) = 2
    /\ finStream = 1

\* C20: when get_updates returns, its result holds every identifier the
\* service emitted before the finished notification, and when
\* get_update_details returns, every update-detail notification the service
\* emitted before the finished notification has been classified into the
\* map the result was built from, however the listeners and the poll loop
\* were scheduled.
C20_ResultsCompleteOnReturn ==
    (ppc = "returned" /\ phaseResult[1].ok) =>
        /\ phase = GetUpdates =>
            (pkgStream = << >> /\ Len(phaseResult[1].val) = svcCount)
        /\ phase = GetUpdateDetails => detStream = << >>

\* the floor of a unit v under a field of the schedule
UnitFloor(field, v) ==
    CASE field.kind = "Any" -> v
      [] field.kind = "Value" -> field.n
      [] field.kind = "Step" -> v - (v % field.n)

\* C21: for every valid schedule and every now, the candidate timestamp has
\* seconds zero, and its minute, hour, day and month are the floors of now's
\* minute, hour, day and month under the schedule's fields.
C21_CandidateIsFloorOfNow ==
    evPeriod # None =>
        LET cron == evCron[1].val
            t == evPeriod[1]
        IN  /\ t.second = 0
            /\ t.minute = UnitFloor(cron.minute, evNow.minute)
            /\ t.hour = UnitFloor(cron.hour, evNow.hour)
            /\ t.day = UnitFloor(cron.day, evNow.day)
            /\ t.month = UnitFloor(cron.month, evNow.month)

\* C22: under fair scheduling of the listeners and the poll loop, a phase
\* whose request was accepted and whose finished notification the service
\* has emitted eventually returns; if the service emits a finished
\* notification in every phase, a run that entered run_update_check
\* eventually prints a verdict; and a phase returns after its request only
\* when a finished notification was emitted and handled (an error alone
\* never makes it return).
C22_ReturnsIffFinished ==
    /\ (Live /\ svcFinished) ~> (ppc = "returned")
    /\ [](Live => <>svcFinished) =>
            ((pc[Main] = "run_update_check") ~> (output[Main] # None))
    /\ [][ (Live /\ ppc' = "returned") => (svcFinished /\ finished) ]_vars

C22_Witness ==
    /\ phase = ApplyUpdates
    /\ ppc = "poll"
    /\ svcError # None
    /\ error # None
    /\ ~svcFinished

\* the period boundary of p's schedule at p's current time
BoundaryOf(p) ==
    calculate_last_period(parse_cron_spec(config[p].cron_spec[1]).val, now[p][1])

\* C23: after an invocation p executed at its time t1 and persisted it, a
\* later invocation q (t2 > t1, same schedule, same lock file) that reads
\* p's timestamp and whose period boundary equals p's is skipped: it neither
\* rewrites the timestamp nor contacts the package service.
C23_OncePerPeriod ==
    \A p, q \in Procs :
        (/\ p # q
         /\ wrote[p]
         /\ now[q] # None
         /\ TimeGT(now[q][1], now[p][1])
         /\ last_run[q] = from_timestamp(timestamp(now[p][1]))
         /\ BoundaryOf(q) = BoundaryOf(p)) =>
            /\ pc[q] \in {"should_run", "exited"}
            /\ ~wrote[q]
            /\ ~contacted[q]

====
